---- MODULE Spec2Model ----
(***************************************************************************)
(* Model of the persistent command pipeline of apple-js:                   *)
(*   - class Osascript (Osascript.js): the worker handle `mainThread`, the *)
(*     FIFO array `#pending`, executeScript, executeSingleCommand,         *)
(*     restart, close and the two stream handlers;                         *)
(*   - the worker program workers/index.js: the stdin `data` handler and   *)
(*     the callback of child_process.exec.                                 *)
(* Request ids are the order of acceptance (1, 2, ...).  Text is a         *)
(* sequence of tokens, so that what the worker writes and what a promise   *)
(* is settled with can be compared.                                        *)
(***************************************************************************)
EXTENDS Integers, Sequences, FiniteSets, TLC

\* ------------------------------------------------------------------ bounds
\* number of requests the pipeline accepts in one run
MaxReq == 2
\* number of worker processes spawned in one run (constructor + restarts)
MaxWorkers == 2
\* number of lines in the array passed to executeScript
MaxLines == 2

\* ------------------------------------------------------------- vocabulary
\* the value of mainThread after close()
NULL == 0
\* the item written by close(): the line "exit\n"
EXIT == 0
\* the worker spawned by the constructor
FirstWorker == 1

Workers == 1..MaxWorkers

\* arguments the callers pass to executeScript
ScriptArgs == {"notArray", "emptyArray", "emptyLine", "good", "bad"}
\* arguments the callers pass to executeSingleCommand
SingleArgs == {"null", "empty", "good", "bad"}

VARIABLES
  mainThread,   \* the worker handle: NULL or the id of the worker held
  pending,      \* #pending: the queued {resolve, reject} pairs, by request id
  reqs,         \* the accepted requests: reqs[i] is the i-th accepted call
  settleLog,    \* every call of a resolve/reject continuation, in order
  discarded,    \* number of chunks the handlers logged and dropped
  lastCall,     \* how the last call of the public API returned
  spawned,      \* number of worker processes spawned so far
  wstate,       \* per worker: "none", "running" or "exited"
  exitCode,     \* per worker: exit code once exited, -1 before
  stdinLog,     \* per worker: everything written to its stdin, in order
  stdinRead,    \* per worker: how many written items its data events consumed
  stdinEnded,   \* per worker: stdin.end() was called on its input
  execs,        \* per worker: the exec() calls whose callback has not run
  stdoutPipe,   \* per worker: chunks written to stdout, not yet handled
  stderrPipe,   \* per worker: chunks written to stderr, not yet handled
  emitOrder,    \* per worker: the streams of its unhandled chunks, oldest first
  scriptArg,    \* the argument of the call whose command text is followed
  command,      \* `command`: the text that call writes to the worker's input
  shellRead     \* what the shell started by exec() makes of that text

\* the variables of the command text
textVars == <<scriptArg, command, shellRead>>

vars == <<mainThread, pending, reqs, settleLog, discarded, lastCall, spawned,
          wstate, exitCode, stdinLog, stdinRead, stdinEnded, execs, stdoutPipe,
          stderrPipe, emitOrder, textVars>>

\* ----------------------------------------------------------------- text
Tok(k, i) == [k |-> k, id |-> i]
NL == Tok("nl", 0)
ErrPfx == Tok("[ERROR] ", 0)
ErrMessage == Tok("err.message", 0)
WorkerExiting == Tok("[Worker] Exiting.", 0)

RECURSIVE Concat(_)
Concat(ss) == IF ss = <<>> THEN <<>> ELSE Head(ss) \o Concat(Tail(ss))

\* ------------------------------------------------- the commands' outcomes
\* How the command line written for an argument behaves when the shell runs
\* it: "out" (status 0; what it prints, possibly nothing, goes to stdout) or
\* "fail" (non-zero status, a diagnostic goes to stderr).
\* executeScript joins the lines of the array into a here-document;
\* executeSingleCommand puts the text, or `undefined` for null, after -e.
CommandOf(op, a) ==
  CASE a \in {"good", "emptyLine", "empty"} -> "out"
    [] a \in {"bad", "null"} -> "fail"

\* whether the command line of request i makes the shell return non-zero
Fails(i) == reqs[i].cmd = "fail"

\* what the command of request i prints on its standard output: one token
\* stands for the whole text, its line ends included
StdoutOf(i) == IF reqs[i].cmd = "out" THEN <<Tok("out", i)>> ELSE <<>>

\* what the command of request i prints on its standard error
StderrOf(i) == IF Fails(i) THEN <<Tok("err", i)>> ELSE <<>>

\* --------------------------------------------------------------- pipeline
\* the guard `!this.mainThread`
NotRunning_Never == FALSE
NotRunning == mainThread = NULL

\* the guard `!Array.isArray(a) || a.length === 0`
IsNonEmptyArray(a) == a \notin {"notArray", "emptyArray"}

\* how a call of the public API returned: "done" (it had its effect),
\* "nothing" (close() with no handle held) or the error it threw
Returned(op, res) == res

\* a call that throws: nothing but the caller's view of the call changes
Throw(op, res) ==
  /\ lastCall' = Returned(op, res)
  /\ UNCHANGED <<mainThread, pending, reqs, settleLog, discarded, spawned,
                 wstate, exitCode, stdinLog, stdinRead, stdinEnded, execs,
                 stdoutPipe, stderrPipe, emitOrder>>
  /\ UNCHANGED textVars

PushAndWrite_Prepend(op, a) ==
  /\ Len(reqs) < MaxReq
  /\ LET id == Len(reqs) + 1 IN
       /\ reqs' = Append(reqs, [cmd |-> CommandOf(op, a),
                               worker |-> mainThread])
       /\ pending' = Append(pending, id)
       /\ stdinLog' = [stdinLog EXCEPT
                         ![mainThread] = SubSeq(@, 1, stdinRead[mainThread])
                            \o <<id>>
                            \o SubSeq(@, stdinRead[mainThread] + 1, Len(@))]
  /\ lastCall' = Returned(op, "done")
  /\ UNCHANGED <<mainThread, settleLog, discarded, spawned, wstate, exitCode,
                 stdinRead, stdinEnded, execs, stdoutPipe, stderrPipe,
                 emitOrder>>
  /\ UNCHANGED textVars

PushAndWrite_WriteTwice(op, a) ==
  /\ Len(reqs) < MaxReq
  /\ LET id == Len(reqs) + 1 IN
       /\ reqs' = Append(reqs, [cmd |-> CommandOf(op, a),
                               worker |-> mainThread])
       /\ pending' = Append(pending, id)
       /\ stdinLog' = [stdinLog EXCEPT ![mainThread] = @ \o <<id, id>>]
  /\ lastCall' = Returned(op, "done")
  /\ UNCHANGED <<mainThread, settleLog, discarded, spawned, wstate, exitCode,
                 stdinRead, stdinEnded, execs, stdoutPipe, stderrPipe,
                 emitOrder>>
  /\ UNCHANGED textVars

\* new Promise(...): push {resolve, reject}, then write the command
PushAndWrite(op, a) ==
  /\ Len(reqs) < MaxReq
  /\ LET id == Len(reqs) + 1 IN
       /\ reqs' = Append(reqs, [cmd |-> CommandOf(op, a),
                               worker |-> mainThread])
       /\ pending' = Append(pending, id)
       /\ stdinLog' = [stdinLog EXCEPT ![mainThread] = Append(@, id)]
  /\ lastCall' = Returned(op, "done")
  /\ UNCHANGED <<mainThread, settleLog, discarded, spawned, wstate, exitCode,
                 stdinRead, stdinEnded, execs, stdoutPipe, stderrPipe,
                 emitOrder>>
  /\ UNCHANGED textVars

executeScript_CheckArgFirst(a) ==
  IF ~IsNonEmptyArray(a) THEN Throw("executeScript", "InvalidArgument")
  ELSE IF NotRunning THEN Throw("executeScript", "NotRunning")
  ELSE PushAndWrite("executeScript", a)

executeScript(a) ==
  IF NotRunning THEN Throw("executeScript", "NotRunning")
  ELSE IF ~IsNonEmptyArray(a) THEN Throw("executeScript", "InvalidArgument")
  ELSE PushAndWrite("executeScript", a)

executeSingleCommand_Unshift(a) ==
  IF NotRunning THEN Throw("executeSingleCommand", "NotRunning")
  ELSE /\ Len(reqs) < MaxReq
       /\ LET id == Len(reqs) + 1 IN
            /\ reqs' = Append(reqs, [cmd |-> CommandOf("executeSingleCommand", a),
                                    worker |-> mainThread])
            /\ pending' = <<id>> \o pending
            /\ stdinLog' = [stdinLog EXCEPT ![mainThread] = Append(@, id)]
       /\ lastCall' = Returned("executeSingleCommand", "done")
       /\ UNCHANGED <<mainThread, settleLog, discarded, spawned, wstate,
                      exitCode, stdinRead, stdinEnded, execs, stdoutPipe,
                      stderrPipe, emitOrder>>
       /\ UNCHANGED textVars

executeSingleCommand(a) ==
  IF NotRunning THEN Throw("executeSingleCommand", "NotRunning")
  ELSE PushAndWrite("executeSingleCommand", a)

\* whether the pipeline listens to the streams of worker w: the constructor
\* attaches the handlers, restart() does not
HasHandlers_Restart(w) == TRUE
HasHandlers(w) == w = FirstWorker

restart_KeepHandle ==
  /\ spawned < MaxWorkers
  /\ spawned' = spawned + 1
  /\ wstate' = [wstate EXCEPT ![spawned + 1] = "running"]
  /\ lastCall' = Returned("restart", "done")
  /\ UNCHANGED <<mainThread, pending, reqs, settleLog, discarded, exitCode,
                 stdinLog, stdinRead, stdinEnded, execs, stdoutPipe,
                 stderrPipe, emitOrder>>
  /\ UNCHANGED textVars

restart_RejectPending ==
  /\ spawned < MaxWorkers
  /\ spawned' = spawned + 1
  /\ mainThread' = spawned + 1
  /\ wstate' = [wstate EXCEPT ![spawned + 1] = "running"]
  /\ lastCall' = Returned("restart", "done")
  /\ pending' = <<>>
  /\ settleLog' = settleLog \o
       [k \in DOMAIN pending |->
          [id |-> pending[k], how |-> "reject", text |-> <<ErrPfx, NL>>]]
  /\ UNCHANGED <<reqs, discarded, exitCode, stdinLog, stdinRead, stdinEnded,
                 execs, stdoutPipe, stderrPipe, emitOrder>>
  /\ UNCHANGED textVars

restart_ClearQueue ==
  /\ spawned < MaxWorkers
  /\ spawned' = spawned + 1
  /\ mainThread' = spawned + 1
  /\ wstate' = [wstate EXCEPT ![spawned + 1] = "running"]
  /\ lastCall' = Returned("restart", "done")
  /\ pending' = <<>>
  /\ UNCHANGED <<reqs, settleLog, discarded, exitCode, stdinLog, stdinRead,
                 stdinEnded, execs, stdoutPipe, stderrPipe, emitOrder>>
  /\ UNCHANGED textVars

restart ==
  /\ spawned < MaxWorkers
  /\ spawned' = spawned + 1
  /\ mainThread' = spawned + 1
  /\ wstate' = [wstate EXCEPT ![spawned + 1] = "running"]
  /\ lastCall' = Returned("restart", "done")
  /\ UNCHANGED <<pending, reqs, settleLog, discarded, exitCode, stdinLog,
                 stdinRead, stdinEnded, execs, stdoutPipe, stderrPipe,
                 emitOrder>>
  /\ UNCHANGED textVars

close_KeepHandle ==
  /\ IF mainThread # NULL
       THEN /\ stdinLog' = [stdinLog EXCEPT ![mainThread] = Append(@, EXIT)]
            /\ stdinEnded' = [stdinEnded EXCEPT ![mainThread] = TRUE]
            /\ lastCall' = Returned("close", "done")
       ELSE /\ UNCHANGED <<stdinLog, stdinEnded>>
            /\ lastCall' = Returned("close", "nothing")
  /\ UNCHANGED <<mainThread, pending, reqs, settleLog, discarded, spawned,
                 wstate, exitCode, stdinRead, execs, stdoutPipe, stderrPipe,
                 emitOrder>>
  /\ UNCHANGED textVars

close_Unguarded ==
  IF mainThread = NULL THEN Throw("close", "TypeError")
  ELSE /\ stdinLog' = [stdinLog EXCEPT ![mainThread] = Append(@, EXIT)]
       /\ stdinEnded' = [stdinEnded EXCEPT ![mainThread] = TRUE]
       /\ mainThread' = NULL
       /\ lastCall' = Returned("close", "done")
       /\ UNCHANGED <<pending, reqs, settleLog, discarded, spawned, wstate,
                      exitCode, stdinRead, execs, stdoutPipe, stderrPipe,
                      emitOrder>>
       /\ UNCHANGED textVars

close ==
  /\ IF mainThread # NULL
       THEN /\ stdinLog' = [stdinLog EXCEPT ![mainThread] = Append(@, EXIT)]
            /\ stdinEnded' = [stdinEnded EXCEPT ![mainThread] = TRUE]
            /\ mainThread' = NULL
            /\ lastCall' = Returned("close", "done")
       ELSE /\ UNCHANGED <<stdinLog, stdinEnded, mainThread>>
            /\ lastCall' = Returned("close", "nothing")
  /\ UNCHANGED <<pending, reqs, settleLog, discarded, spawned, wstate,
                 exitCode, stdinRead, execs, stdoutPipe, stderrPipe,
                 emitOrder>>
  /\ UNCHANGED textVars

\* #pending.shift(): the queue after the shift
Shift(q) == IF q = <<>> THEN <<>> ELSE Tail(q)

Settled(id, how, text) == [id |-> id, how |-> how, text |-> text]

handleOutput_Peek(out) ==
  /\ pending' = pending
  /\ settleLog' = IF pending # <<>>
                    THEN Append(settleLog, Settled(Head(pending), "resolve", out))
                    ELSE settleLog
  /\ discarded' = IF pending # <<>> THEN discarded ELSE discarded + 1

handleOutput_Pop(out) ==
  /\ pending' = IF pending = <<>> THEN <<>>
                ELSE SubSeq(pending, 1, Len(pending) - 1)
  /\ settleLog' = IF pending # <<>>
                    THEN Append(settleLog,
                                Settled(pending[Len(pending)], "resolve", out))
                    ELSE settleLog
  /\ discarded' = IF pending # <<>> THEN discarded ELSE discarded + 1

handleOutput_Unchecked(out) ==
  /\ pending' = Shift(pending)
  /\ settleLog' = IF pending # <<>>
                    THEN Append(settleLog, Settled(Head(pending), "resolve", out))
                    ELSE Append(settleLog, Settled(0, "TypeError", out))
  /\ discarded' = discarded

\* #handleOutput(out)
handleOutput(out) ==
  /\ pending' = Shift(pending)
  /\ settleLog' = IF pending # <<>>
                    THEN Append(settleLog, Settled(Head(pending), "resolve", out))
                    ELSE settleLog
  /\ discarded' = IF pending # <<>> THEN discarded ELSE discarded + 1

errorHandler_NoShift(err) ==
  /\ pending' = pending
  /\ settleLog' = IF pending # <<>>
                    THEN Append(settleLog, Settled(Head(pending), "reject", err))
                    ELSE settleLog
  /\ discarded' = IF pending # <<>> THEN discarded ELSE discarded + 1

errorHandler_Resolve(err) ==
  /\ pending' = Shift(pending)
  /\ settleLog' = IF pending # <<>>
                    THEN Append(settleLog, Settled(Head(pending), "resolve", err))
                    ELSE settleLog
  /\ discarded' = IF pending # <<>> THEN discarded ELSE discarded + 1

\* #errorHandler(err)
errorHandler(err) ==
  /\ pending' = Shift(pending)
  /\ settleLog' = IF pending # <<>>
                    THEN Append(settleLog, Settled(Head(pending), "reject", err))
                    ELSE settleLog
  /\ discarded' = IF pending # <<>> THEN discarded ELSE discarded + 1

\* the order of emission with the oldest chunk of stream s taken out
RECURSIVE Handled(_, _)
Handled(order, s) ==
  IF order = <<>> THEN <<>>
  ELSE IF Head(order) = s THEN Tail(order)
  ELSE <<Head(order)>> \o Handled(Tail(order), s)

\* a `data` event of the stdout of worker w
StdoutData(w) ==
  /\ HasHandlers(w)
  /\ stdoutPipe[w] # <<>>
  /\ handleOutput(Head(stdoutPipe[w]))
  /\ stdoutPipe' = [stdoutPipe EXCEPT ![w] = Tail(@)]
  /\ UNCHANGED <<mainThread, reqs, lastCall, spawned, wstate, exitCode,
                 stdinLog, stdinRead, stdinEnded, execs, stderrPipe>>
  /\ emitOrder' = [emitOrder EXCEPT ![w] = Handled(@, "stdout")]
  /\ UNCHANGED textVars

\* a `data` event of the stderr of worker w
StderrData(w) ==
  /\ HasHandlers(w)
  /\ stderrPipe[w] # <<>>
  /\ errorHandler(Head(stderrPipe[w]))
  /\ stderrPipe' = [stderrPipe EXCEPT ![w] = Tail(@)]
  /\ UNCHANGED <<mainThread, reqs, lastCall, spawned, wstate, exitCode,
                 stdinLog, stdinRead, stdinEnded, execs, stdoutPipe>>
  /\ emitOrder' = [emitOrder EXCEPT ![w] = Handled(@, "stderr")]
  /\ UNCHANGED textVars

\* ------------------------------------------------------------------ worker
\* the commands of a chunk that the shell runs: those before an `exit` line
RECURSIVE Commands(_)
Commands(chunk) ==
  IF chunk = <<>> \/ Head(chunk) = EXIT THEN <<>>
  ELSE <<Head(chunk)>> \o Commands(Tail(chunk))

\* err of the exec callback: the status of the last command the shell ran
ExecErr(chunk) ==
  LET cs == Commands(chunk) IN cs # <<>> /\ Fails(cs[Len(cs)])

ExecStdout(chunk) ==
  LET cs == Commands(chunk) IN Concat([k \in 1..Len(cs) |-> StdoutOf(cs[k])])

ExecStderr(chunk) ==
  LET cs == Commands(chunk) IN Concat([k \in 1..Len(cs) |-> StderrOf(cs[k])])

\* the text of `[ERROR] ${stderr || err.message}\n`
ErrorText(chunk) ==
  <<ErrPfx>>
    \o (IF ExecStderr(chunk) # <<>> THEN ExecStderr(chunk) ELSE <<ErrMessage>>)
    \o <<NL>>

\* the text of stdout + "\n"
OutputText(chunk) == ExecStdout(chunk) \o <<NL>>

WorkerData_ExitOne(w, n) ==
  /\ wstate[w] = "running"
  /\ n >= 1
  /\ stdinRead[w] + n <= Len(stdinLog[w])
  /\ LET chunk == SubSeq(stdinLog[w], stdinRead[w] + 1, stdinRead[w] + n) IN
       IF chunk = <<EXIT>>
         THEN /\ stdoutPipe' = [stdoutPipe EXCEPT
                                  ![w] = Append(@, <<WorkerExiting, NL>>)]
              /\ emitOrder' = [emitOrder EXCEPT ![w] = Append(@, "stdout")]
              /\ wstate' = [wstate EXCEPT ![w] = "exited"]
              /\ exitCode' = [exitCode EXCEPT ![w] = 1]
              /\ execs' = [execs EXCEPT ![w] = {}]
         ELSE /\ execs' = [execs EXCEPT ![w] = @ \cup {chunk}]
              /\ UNCHANGED <<stdoutPipe, wstate, exitCode, emitOrder>>
  /\ stdinRead' = [stdinRead EXCEPT ![w] = @ + n]
  /\ UNCHANGED <<mainThread, pending, reqs, settleLog, discarded, lastCall,
                 spawned, stdinLog, stdinEnded, stderrPipe>>
  /\ UNCHANGED textVars

\* process.stdin.on("data", chunk => ...): the stream hands over the next n
\* items written to the input as one chunk
WorkerData(w, n) ==
  /\ wstate[w] = "running"
  /\ n >= 1
  /\ stdinRead[w] + n <= Len(stdinLog[w])
  /\ LET chunk == SubSeq(stdinLog[w], stdinRead[w] + 1, stdinRead[w] + n) IN
       IF chunk = <<EXIT>>
         THEN /\ stdoutPipe' = [stdoutPipe EXCEPT
                                  ![w] = Append(@, <<WorkerExiting, NL>>)]
              /\ emitOrder' = [emitOrder EXCEPT ![w] = Append(@, "stdout")]
              /\ wstate' = [wstate EXCEPT ![w] = "exited"]
              /\ exitCode' = [exitCode EXCEPT ![w] = 0]
              /\ execs' = [execs EXCEPT ![w] = {}]
         ELSE /\ execs' = [execs EXCEPT ![w] = @ \cup {chunk}]
              /\ UNCHANGED <<stdoutPipe, wstate, exitCode, emitOrder>>
  /\ stdinRead' = [stdinRead EXCEPT ![w] = @ + n]
  /\ UNCHANGED <<mainThread, pending, reqs, settleLog, discarded, lastCall,
                 spawned, stdinLog, stdinEnded, stderrPipe>>
  /\ UNCHANGED textVars

ExecCallback_ExitOnError(w, chunk) ==
  /\ wstate[w] = "running"
  /\ chunk \in execs[w]
  /\ execs' = [execs EXCEPT ![w] = @ \ {chunk}]
  /\ IF ExecErr(chunk)
       THEN /\ stderrPipe' = [stderrPipe EXCEPT
                                ![w] = Append(@, ErrorText(chunk))]
            /\ emitOrder' = [emitOrder EXCEPT ![w] = Append(@, "stderr")]
            /\ wstate' = [wstate EXCEPT ![w] = "exited"]
            /\ exitCode' = [exitCode EXCEPT ![w] = 1]
            /\ UNCHANGED stdoutPipe
       ELSE /\ stdoutPipe' = [stdoutPipe EXCEPT
                                ![w] = Append(@, OutputText(chunk))]
            /\ emitOrder' = [emitOrder EXCEPT ![w] = Append(@, "stdout")]
            /\ UNCHANGED <<stderrPipe, wstate, exitCode>>
  /\ UNCHANGED <<mainThread, pending, reqs, settleLog, discarded, lastCall,
                 spawned, stdinLog, stdinRead, stdinEnded>>
  /\ UNCHANGED textVars

\* the callback of exec(command, (err, stdout, stderr) => ...)
ExecCallback(w, chunk) ==
  /\ wstate[w] = "running"
  /\ chunk \in execs[w]
  /\ execs' = [execs EXCEPT ![w] = @ \ {chunk}]
  /\ IF ExecErr(chunk)
       THEN /\ stderrPipe' = [stderrPipe EXCEPT
                                ![w] = Append(@, ErrorText(chunk))]
            /\ emitOrder' = [emitOrder EXCEPT ![w] = Append(@, "stderr")]
            /\ UNCHANGED stdoutPipe
       ELSE /\ stdoutPipe' = [stdoutPipe EXCEPT
                                ![w] = Append(@, OutputText(chunk))]
            /\ emitOrder' = [emitOrder EXCEPT ![w] = Append(@, "stdout")]
            /\ UNCHANGED stderrPipe
  /\ UNCHANGED <<mainThread, pending, reqs, settleLog, discarded, lastCall,
                 spawned, wstate, exitCode, stdinLog, stdinRead, stdinEnded>>
  /\ UNCHANGED textVars

\* the input has ended and nothing keeps the event loop alive any more
WorkerEnd(w) ==
  /\ wstate[w] = "running"
  /\ stdinEnded[w]
  /\ stdinRead[w] = Len(stdinLog[w])
  /\ execs[w] = {}
  /\ wstate' = [wstate EXCEPT ![w] = "exited"]
  /\ exitCode' = [exitCode EXCEPT ![w] = 0]
  /\ UNCHANGED <<mainThread, pending, reqs, settleLog, discarded, lastCall,
                 spawned, stdinLog, stdinRead, stdinEnded, execs, stdoutPipe,
                 stderrPipe, emitOrder>>
  /\ UNCHANGED textVars

\* ------------------------------------------------------------ the system
\* new Osascript()
Init ==
  /\ mainThread = FirstWorker
  /\ pending = <<>>
  /\ reqs = <<>>
  /\ settleLog = <<>>
  /\ discarded = 0
  /\ lastCall = Returned("constructor", "done")
  /\ spawned = 1
  /\ wstate = [w \in Workers |-> IF w = FirstWorker THEN "running" ELSE "none"]
  /\ exitCode = [w \in Workers |-> -1]
  /\ stdinLog = [w \in Workers |-> <<>>]
  /\ stdinRead = [w \in Workers |-> 0]
  /\ stdinEnded = [w \in Workers |-> FALSE]
  /\ execs = [w \in Workers |-> {}]
  /\ stdoutPipe = [w \in Workers |-> <<>>]
  /\ stderrPipe = [w \in Workers |-> <<>>]
  /\ emitOrder = [w \in Workers |-> <<>>]
  /\ scriptArg = [op |-> "none", arg |-> <<>>]
  /\ command = <<>>
  /\ shellRead = [read |-> FALSE, lines |-> <<>>, rest |-> <<>>]

Next ==
  \/ \E a \in ScriptArgs : executeScript(a)
  \/ \E a \in SingleArgs : executeSingleCommand(a)
  \/ restart
  \/ close
  \/ \E w \in Workers : StdoutData(w)
  \/ \E w \in Workers : StderrData(w)
  \/ \E w \in Workers : \E n \in 1..(MaxReq + 1) : WorkerData(w, n)
  \/ \E w \in Workers : \E c \in execs[w] : ExecCallback(w, c)
  \/ \E w \in Workers : WorkerEnd(w)

Spec == Init /\ [][Next]_vars

\* ------------------------------------------------------------ properties
Range(q) == {q[k] : k \in DOMAIN q}

\* the requests the pipeline accepted so far
Accepted == DOMAIN reqs

\* the requests whose resolve or reject was called
SettledIds == {settleLog[k].id : k \in DOMAIN settleLog}

\* the constructor's worker is still held: no close(), no restart() so far
NeverClosedNorRestarted == spawned = 1 /\ mainThread = FirstWorker

\* what the worker writes when it runs the command of request i by itself
ResponseOf(i) == IF Fails(i) THEN ErrorText(<<i>>) ELSE OutputText(<<i>>)

\* the continuation the response to request i calls for
OutcomeOf(i) == IF Fails(i) THEN "reject" ELSE "resolve"

\* the step is a call of executeScript or of executeSingleCommand
SubmitStep ==
  \/ \E a \in ScriptArgs : executeScript(a)
  \/ \E a \in SingleArgs : executeSingleCommand(a)

\* the step handles a chunk of the stdout (of the stderr) of worker w
StdoutStep(w) == stdoutPipe[w] # <<>> /\ stdoutPipe'[w] = Tail(stdoutPipe[w])
StderrStep(w) == stderrPipe[w] # <<>> /\ stderrPipe'[w] = Tail(stderrPipe[w])

\* the worker has nothing left to do and nothing of it is left to handle
Quiescent(w) ==
  /\ stdinRead[w] = Len(stdinLog[w])
  /\ execs[w] = {}
  /\ stdoutPipe[w] = <<>>
  /\ stderrPipe[w] = <<>>

\* request i was written to a worker that a later restart() replaced, and
\* is still queued
Orphaned(i) == i \in Range(pending) /\ reqs[i].worker < spawned

\* C1: FIFO correlation. While the constructor's worker is held, every
\* promise that was settled was settled with the response the worker
\* produces for that very command, through the matching continuation.
C1_FifoCorrelation ==
  NeverClosedNorRestarted =>
    \A k \in DOMAIN settleLog :
      /\ settleLog[k].text = ResponseOf(settleLog[k].id)
      /\ settleLog[k].how = OutcomeOf(settleLog[k].id)

\* C2: single in-flight command. A step that accepts a request, and so
\* writes its command to the worker, is only taken with an empty queue.
C2_SingleInFlight ==
  [][Len(reqs') > Len(reqs) => pending = <<>>]_vars

\* C3: exactly-once settlement. While the constructor's worker is held, no
\* request is settled twice, and once the worker has run everything it was
\* sent and all its chunks were handled, every accepted request is settled.
C3_ExactlyOnce ==
  NeverClosedNorRestarted =>
    /\ \A k, l \in DOMAIN settleLog :
         settleLog[k].id = settleLog[l].id => k = l
    /\ Quiescent(FirstWorker) => Accepted \subseteq SettledIds

\* C4: strict FIFO completion order. The k-th continuation called is that of
\* the k-th accepted request, so a request is never settled while an
\* earlier one is pending, whatever was submitted, restarted or closed.
C4_StrictFifo ==
  /\ \A k \in DOMAIN settleLog : settleLog[k].id = k
  /\ \A i, j \in Accepted : i < j /\ j \in SettledIds => i \in SettledIds
  /\ \A k \in DOMAIN pending : pending[k] = Len(settleLog) + k

\* two requests were settled in submission order although the first chunk
\* handled was not the response to the first command
C4_Witness ==
  /\ Len(settleLog) >= 2
  /\ settleLog[1].text # ResponseOf(1)

\* C5: with no worker handle held (after close()), a call of executeScript
\* or executeSingleCommand returns the not-running error, and queues,
\* writes and settles nothing.
C5_ClosedSubmitFails ==
  [][(mainThread = NULL /\ SubmitStep) =>
       /\ lastCall' = "NotRunning"
       /\ UNCHANGED <<mainThread, pending, reqs, settleLog, stdinLog,
                      stdinEnded>>]_vars

\* a submit call was refused with the not-running error after close()
C5_Witness ==
  /\ mainThread = NULL
  /\ lastCall = "NotRunning"
  /\ \E w \in Workers : stdinEnded[w]

\* C6: close() with no worker handle held returns normally, writes no
\* second `exit` and no second end-of-input, and leaves the pipeline
\* closed, so that submit calls keep failing with the not-running error.
C6_CloseIdempotent ==
  [][(mainThread = NULL /\ close) =>
       /\ lastCall' = Returned("close", "nothing")
       /\ mainThread' = NULL
       /\ UNCHANGED <<pending, reqs, settleLog, discarded, spawned, wstate,
                      exitCode, stdinLog, stdinRead, stdinEnded, execs,
                      stdoutPipe, stderrPipe, emitOrder>>]_vars

\* close() was called a second time
C6_Witness ==
  /\ mainThread = NULL
  /\ lastCall = Returned("close", "nothing")
  /\ \E w \in Workers :
       stdinEnded[w] /\ stdinLog[w][Len(stdinLog[w])] = EXIT

\* C7: on a running pipeline, executeScript with nothing to run and
\* executeSingleCommand with an empty string or null are refused with a
\* validation error, with nothing queued and nothing written.
C7_EmptyCommandRefused ==
  [][(mainThread # NULL /\
        \/ executeScript("emptyArray")
        \/ executeSingleCommand("empty")
        \/ executeSingleCommand("null")) =>
       /\ lastCall' = "InvalidArgument"
       /\ UNCHANGED <<pending, reqs, stdinLog>>]_vars

\* C8: the correlation step. A stdout chunk handled with a non-empty queue
\* resolves the head request with the chunk, a stderr chunk rejects it with
\* the chunk; the head is removed and the rest of the queue is kept as is.
C8_CorrelationStep ==
  [][\A w \in Workers :
       /\ (StdoutStep(w) /\ pending # <<>>) =>
            /\ pending' = Tail(pending)
            /\ settleLog' = Append(settleLog,
                 [id |-> Head(pending), how |-> "resolve",
                  text |-> Head(stdoutPipe[w])])
       /\ (StderrStep(w) /\ pending # <<>>) =>
            /\ pending' = Tail(pending)
            /\ settleLog' = Append(settleLog,
                 [id |-> Head(pending), how |-> "reject",
                  text |-> Head(stderrPipe[w])])]_vars

\* the head was rejected by a stderr chunk and another request stayed queued
C8_Witness ==
  /\ Len(settleLog) = 1
  /\ settleLog[1].how = "reject"
  /\ pending # <<>>

\* C9: a chunk handled with an empty queue is dropped: the queue stays
\* empty, the worker handle is kept, no continuation is called.
C9_StrayChunkDiscarded ==
  [][\A w \in Workers :
       ((StdoutStep(w) \/ StderrStep(w)) /\ pending = <<>>) =>
          /\ pending' = <<>>
          /\ mainThread' = mainThread
          /\ settleLog' = settleLog
          /\ discarded' = discarded + 1]_vars

\* a chunk was dropped
C9_Witness == discarded >= 1 /\ pending = <<>>

WorkerStep(w) ==
  \/ \E n \in 1..(MaxReq + 1) : WorkerData(w, n)
  \/ \E c \in execs[w] : ExecCallback(w, c)
  \/ WorkerEnd(w)

\* a step of a worker or the handling of a chunk: all that happens without
\* a call of the public API
SystemStep ==
  \/ \E w \in Workers : WorkerStep(w)
  \/ \E w \in Workers : StdoutData(w) \/ StderrData(w)

\* the worker that request i was written to has written the response to it
Emitted(i) ==
  \/ ResponseOf(i) \in Range(stdoutPipe[reqs[i].worker])
  \/ ResponseOf(i) \in Range(stderrPipe[reqs[i].worker])
  \/ \E k \in DOMAIN settleLog : settleLog[k].text = ResponseOf(i)

\* request i was settled with the response to its own command
SettledWithOwn(i) ==
  \E k \in DOMAIN settleLog :
    settleLog[k] = Settled(i, OutcomeOf(i), ResponseOf(i))

\* C11: a command submitted after restart() is written to the fresh worker
\* and, the fresh worker having emitted its response, is settled with it:
\* when nothing is left to run or to handle, the promise has been settled
\* with that response.
C11_FreshWorkerSettles ==
  \A i \in Accepted :
    (reqs[i].worker # FirstWorker /\ Emitted(i) /\ ~ENABLED SystemStep) =>
       /\ i \in Range(stdinLog[reqs[i].worker])
       /\ SettledWithOwn(i)

\* C12: restart() leaves the pipeline holding a newly spawned, running
\* worker, whether a worker was held before or not; while a worker is held
\* no submit call fails with the not-running error, and every write goes to
\* the worker held, which is the one spawned last, never a discarded one.
C12_RestartRuns ==
  [][/\ spawned' # spawned =>
          /\ spawned' = spawned + 1
          /\ mainThread' = spawned'
          /\ mainThread' # NULL
          /\ wstate[mainThread'] = "none"
          /\ wstate'[mainThread'] = "running"
     /\ (mainThread # NULL /\ SubmitStep) => lastCall' # "NotRunning"
     /\ \A w \in Workers :
          stdinLog'[w] # stdinLog[w] => w = mainThread /\ w = spawned]_vars

\* restart() was called on a closed pipeline and a command was accepted and
\* written to the fresh worker
C12_Witness ==
  /\ spawned = 2
  /\ stdinEnded[FirstWorker]
  /\ mainThread = 2
  /\ lastCall = "done"
  /\ \E i \in Accepted : reqs[i].worker = 2 /\ i \in Range(stdinLog[2])

\* C13: close() with a worker held writes the line `exit` to its input,
\* ends the input and clears the handle; nothing is ever written to an
\* input after its end, so `exit` stays the last thing written to it.
C13_ExitIsLast ==
  [][/\ (mainThread # NULL /\ close) =>
          /\ stdinLog'[mainThread] = Append(stdinLog[mainThread], EXIT)
          /\ stdinEnded'[mainThread]
          /\ mainThread' = NULL
     /\ \A w \in Workers :
          stdinEnded[w] =>
            /\ stdinLog[w] # <<>>
            /\ stdinLog[w][Len(stdinLog[w])] = EXIT
            /\ stdinLog'[w] = stdinLog[w]
            /\ stdinEnded'[w]]_vars

\* a pipeline with commands written was closed, then restarted, and a
\* later command went to the fresh worker
C13_Witness ==
  /\ stdinEnded[FirstWorker]
  /\ Len(stdinLog[FirstWorker]) >= 2
  /\ mainThread = 2
  /\ stdinLog[2] # <<>>

\* what worker w has left to do: input to read, exec calls to come back,
\* and its own end
Remaining(w) ==
  2 * (Len(stdinLog[w]) - stdinRead[w]) + Cardinality(execs[w])
    + (IF wstate[w] = "running" THEN 1 ELSE 0)

\* the step is one of worker w: it read input, started or finished an exec
\* call, or ended
WorkerMoved(w) ==
  \/ stdinRead'[w] # stdinRead[w]
  \/ execs'[w] # execs[w]
  \/ wstate'[w] # wstate[w]

\* C14: after close() the worker whose input was ended terminates with exit
\* code 0, however its input is cut into chunks: every step it takes brings
\* it closer to its end, and when it can take no step it has exited with
\* code 0.
C14_WorkerTerminates ==
  /\ [](\A w \in Workers :
          /\ (stdinEnded[w] /\ ~ENABLED WorkerStep(w)) =>
               wstate[w] = "exited" /\ exitCode[w] = 0
          /\ wstate[w] = "exited" => exitCode[w] = 0)
  /\ [][\A w \in Workers :
          (stdinEnded[w] /\ WorkerMoved(w)) =>
             /\ Remaining(w)' < Remaining(w)
             /\ Remaining(w)' >= 0]_vars

\* The worker is a process of its own: it keeps reading its input, its
\* exec calls come back, and it ends when nothing is left to do.
FairSpec == Spec /\ \A w \in Workers : WF_vars(WorkerStep(w))

\* C14 as a property of the fair behaviours
C14_Eventually ==
  \A w \in Workers :
    stdinEnded[w] ~> (wstate[w] = "exited" /\ exitCode[w] = 0)

\* a worker terminated although `exit` reached it in one chunk with the
\* command before it, so that the exit branch was not taken
C14_Witness ==
  /\ stdinEnded[FirstWorker]
  /\ wstate[FirstWorker] = "exited"
  /\ exitCode[FirstWorker] = 0
  /\ Len(stdinLog[FirstWorker]) >= 2
  /\ \A k \in DOMAIN settleLog : settleLog[k].text # <<WorkerExiting, NL>>
  /\ stdoutPipe[FirstWorker] = <<>>
  /\ stderrPipe[FirstWorker] = <<>>
  /\ discarded = 0

\* C15: the worker runs one command at a time: no worker ever has more than
\* one exec call whose callback has not run.
C15_OneExecAtATime ==
  \A w \in Workers : Cardinality(execs[w]) <= 1

\* C16: the worker answers in the order of receipt: an exec call comes back
\* only when no exec call started from an earlier chunk is still running.
C16_ResponsesInOrder ==
  [][\A w \in Workers : \A c \in execs[w] :
       (c \notin execs'[w] /\ wstate'[w] = "running") =>
          \A d \in execs[w] : Head(d) >= Head(c)]_vars

\* C17: every command the worker ran gets exactly one response: when an
\* exec call is over, it ran one command and exactly one chunk, the response
\* to it, was written, on stdout or on stderr and not on both.
C17_OneResponsePerCommand ==
  [][\A w \in Workers : \A c \in execs[w] :
       c \notin execs'[w] =>
          /\ Len(Commands(c)) = 1
          /\ \/ /\ stdoutPipe'[w] = Append(stdoutPipe[w], OutputText(c))
                /\ stderrPipe'[w] = stderrPipe[w]
             \/ /\ stderrPipe'[w] = Append(stderrPipe[w], ErrorText(c))
                /\ stdoutPipe'[w] = stdoutPipe[w]]_vars

\* C18: every frame written by the pipeline is run as one command of its
\* own, however the input is cut into chunks: no exec call runs the
\* frames of two requests.
C18_OneFramePerExec ==
  \A w \in Workers : \A c \in execs[w] : Len(Commands(c)) = 1

\* C19: the pipeline handles the chunks of a worker in the order the worker
\* wrote them, across stdout and stderr: the chunk handled is always the
\* oldest unhandled one.
C19_HandledInEmissionOrder ==
  [][\A w \in Workers :
       /\ StdoutStep(w) => Head(emitOrder[w]) = "stdout"
       /\ StderrStep(w) => Head(emitOrder[w]) = "stderr"]_vars

\* ------------------------------------------------------- sequential use
\* `await`: the caller goes on only once the promise of every call it made
\* is settled
Awaited == Accepted \subseteq SettledIds

\* the caller of the showcase scripts and of the README: every call is
\* awaited before the next one, close() comes last, restart() as needed. A
\* chunk of a worker's input then holds one frame or `exit` alone, so that a
\* worker never runs out of input with something else than `exit` read
SeqNext ==
  \/ Awaited /\ \E a \in ScriptArgs : executeScript(a)
  \/ Awaited /\ \E a \in SingleArgs : executeSingleCommand(a)
  \/ Awaited /\ restart
  \/ Awaited /\ close
  \/ \E w \in Workers : StdoutData(w)
  \/ \E w \in Workers : StderrData(w)
  \/ \E w \in Workers : \E n \in 1..(MaxReq + 1) : WorkerData(w, n)
  \/ \E w \in Workers : \E c \in execs[w] : ExecCallback(w, c)

SeqSpec == Init /\ [][SeqNext]_vars

\* the entries of the settle log about request i
SettlesOf(i) == {settleLog[k] : k \in {m \in DOMAIN settleLog : settleLog[m].id = i}}

\* request i was written to the worker the constructor spawned
OnFirstWorker(i) == reqs[i].worker = FirstWorker

FinalClose == ~stdinEnded[FirstWorker] /\ stdinEnded'[FirstWorker]

C22_ResolvesWithStdout ==
  spawned = 1 =>
    \A k \in DOMAIN settleLog :
      settleLog[k].how = "resolve" =>
        settleLog[k].text = StdoutOf(settleLog[k].id)

\* -------------------------------------------------------- command text
\* Text is a sequence of characters; the word __APPLESCRIPT__ and the
\* words of the command line count as one character each.
LF == "\n"
SQ == "'"
DQ == "\""
BS == "\\"
SP == " "
Delimiter == "__APPLESCRIPT__"

\* lines the callers put in appleCodeArray (also used as scriptCommand)
PayloadLines ==
  { <<>>, <<"x">>, <<"x", SQ, "y">>, <<DQ, "x", DQ>>, <<"x", LF, "y">>,
    <<"$", "x">>, <<Delimiter>>, <<Delimiter, "x">>,
    <<"x", LF, Delimiter, LF, "y">> }

\* the non-empty arrays of at most MaxLines lines
PayloadArrays == UNION {[1..n -> PayloadLines] : n \in 1..MaxLines}

\* appleCodeArray.join("\n")
RECURSIVE JoinLines(_)
JoinLines(a) ==
  IF a = <<>> THEN <<>>
  ELSE IF Len(a) = 1 THEN a[1]
  ELSE a[1] \o <<LF>> \o JoinLines(Tail(a))

\* scriptCommand?.replace(/'/g, "\\'")
RECURSIVE ReplaceQuotes(_)
ReplaceQuotes(t) ==
  IF t = <<>> THEN <<>>
  ELSE (IF Head(t) = SQ THEN <<BS, SQ>> ELSE <<Head(t)>>) \o ReplaceQuotes(Tail(t))

HereDocCommand_Escaped(a) ==
  <<"osascript", SP, "<<", SQ, Delimiter, SQ, LF>>
    \o ReplaceQuotes(JoinLines(a)) \o <<LF, Delimiter, LF>>

\* `osascript <<'__APPLESCRIPT__'\n${scriptText}\n__APPLESCRIPT__\n`
HereDocCommand(a) ==
  <<"osascript", SP, "<<", SQ, Delimiter, SQ, LF>>
    \o JoinLines(a) \o <<LF, Delimiter, LF>>

\* `osascript -e '${scriptCommand?.replace(/'/g, "\\'")}'\n`
SingleCommand(c) ==
  <<"osascript", SP, "-e", SP, SQ>>
    \o ReplaceQuotes(c) \o <<SQ, LF>>

\* String.prototype.trim()
WhiteSpace == {LF, SP}
RECURSIVE TrimStart(_)
TrimStart(t) ==
  IF t # <<>> /\ Head(t) \in WhiteSpace THEN TrimStart(Tail(t)) ELSE t
RECURSIVE TrimEnd(_)
TrimEnd(t) ==
  IF t # <<>> /\ t[Len(t)] \in WhiteSpace
    THEN TrimEnd(SubSeq(t, 1, Len(t) - 1)) ELSE t
Trim(t) == TrimEnd(TrimStart(t))

\* the lines of a text: its pieces between newlines
RECURSIVE SplitLines(_)
SplitLines(t) ==
  IF \A k \in DOMAIN t : t[k] # LF THEN <<t>>
  ELSE LET k == CHOOSE k \in DOMAIN t :
                  t[k] = LF /\ \A j \in 1..(k - 1) : t[j] # LF
       IN  <<SubSeq(t, 1, k - 1)>> \o SplitLines(SubSeq(t, k + 1, Len(t)))

\* what the shell substitutes in the lines of a here-document: nothing
\* when the delimiter word is quoted, `$name` (unset: empty) otherwise
RECURSIVE Expand(_, _)
Expand(t, quoted) ==
  IF quoted \/ t = <<>> THEN t
  ELSE IF Head(t) = "$" /\ Len(t) >= 2 /\ t[2] \notin {LF, SP, SQ, DQ}
         THEN Expand(Tail(Tail(t)), quoted)
  ELSE <<Head(t)>> \o Expand(Tail(t), quoted)

\* /bin/sh reading the text exec() hands it, a command line that opens a
\* here-document: the lines up to the first line that is the delimiter
\* word go to the standard input of osascript; the lines after it are
\* further command lines of the shell
ShellHereDoc(t) ==
  LET ls     == SplitLines(t)
      first  == ls[1]
      quoted == first[4] = SQ
      word   == IF quoted THEN first[5] ELSE first[4]
      ends   == {k \in 2..Len(ls) : ls[k] = <<word>>}
      end    == IF ends = {} THEN Len(ls) + 1
                ELSE CHOOSE k \in ends : \A j \in ends : k <= j
  IN  [read  |-> TRUE,
       lines |-> [k \in 1..(end - 2) |-> Expand(ls[k + 1], quoted)],
       rest  |-> SubSeq(ls, end + 1, Len(ls))]

\* no call was followed yet; the shell has read nothing yet
NoCall == [op |-> "none", arg |-> <<>>]
NotRead == [read |-> FALSE, lines |-> <<>>, rest |-> <<>>]

\* executeScript(appleCodeArray), as far as the command text goes
TextExecuteScript(a) ==
  /\ scriptArg = NoCall
  /\ scriptArg' = [op |-> "executeScript", arg |-> a]
  /\ command' = HereDocCommand(a)
  /\ UNCHANGED <<shellRead, mainThread, pending, reqs, settleLog, discarded,
                 lastCall, spawned, wstate, exitCode, stdinLog, stdinRead,
                 stdinEnded, execs, stdoutPipe, stderrPipe, emitOrder>>

\* executeSingleCommand(scriptCommand), as far as the command text goes
TextExecuteSingleCommand(c) ==
  /\ scriptArg = NoCall
  /\ scriptArg' = [op |-> "executeSingleCommand", arg |-> c]
  /\ command' = SingleCommand(c)
  /\ UNCHANGED <<shellRead, mainThread, pending, reqs, settleLog, discarded,
                 lastCall, spawned, wstate, exitCode, stdinLog, stdinRead,
                 stdinEnded, execs, stdoutPipe, stderrPipe, emitOrder>>

\* the worker's data handler for a chunk that is this command alone:
\* exec(chunk.toString().trim()). Only the reading of a here-document is
\* followed; how the shell reads the argument of -e is not.
TextExec ==
  /\ scriptArg.op = "executeScript"
  /\ shellRead = NotRead
  /\ shellRead' = ShellHereDoc(Trim(command))
  /\ UNCHANGED <<scriptArg, command, mainThread, pending, reqs, settleLog,
                 discarded, lastCall, spawned, wstate, exitCode, stdinLog,
                 stdinRead, stdinEnded, execs, stdoutPipe, stderrPipe,
                 emitOrder>>

TextNext ==
  \/ \E a \in PayloadArrays : TextExecuteScript(a)
  \/ \E c \in PayloadLines : TextExecuteSingleCommand(c)
  \/ TextExec

\* one call, followed from its argument to what the shell reads
TextSpec == Init /\ [][TextNext]_vars

\* no line of the text the array is joined to is the delimiter word
NoDelimiterLine(a) ==
  LET ls == SplitLines(JoinLines(a))
  IN  \A k \in DOMAIN ls : ls[k] # <<Delimiter>>

\* C23: framing round trip. The frame executeScript writes is
\* osascript <<'__APPLESCRIPT__', newline, the lines joined by newlines,
\* newline, __APPLESCRIPT__, newline; and when no line of the payload is
\* the delimiter, the here-document the shell reads from it is the payload,
\* character for character, with no shell command after it.
C23_FramingRoundTrip ==
  scriptArg.op = "executeScript" =>
    LET payload == JoinLines(scriptArg.arg) IN
      /\ command = <<"osascript", SP, "<<", SQ, Delimiter, SQ>> \o <<LF>>
                     \o payload \o <<LF>> \o <<Delimiter>> \o <<LF>>
      /\ (shellRead.read /\ NoDelimiterLine(scriptArg.arg)) =>
            /\ JoinLines(shellRead.lines) = payload
            /\ shellRead.rest = <<>>

\* a payload with a single quote in one line and a newline inside another
\* was framed and read back
C23_Witness ==
  /\ scriptArg.op = "executeScript"
  /\ shellRead.read
  /\ NoDelimiterLine(scriptArg.arg)
  /\ \E k \in DOMAIN scriptArg.arg : SQ \in Range(scriptArg.arg[k])
  /\ \E k \in DOMAIN scriptArg.arg : LF \in Range(scriptArg.arg[k])

\* --------------------------------------------- callers using both methods
\* the method of the i-th accepted call: the callers take turns, beginning
\* with executeScript as startTest does
OpOf(i) == IF i % 2 = 1 THEN "executeScript" ELSE "executeSingleCommand"

\* Next, with the two methods called in turn and without awaiting
MixNext ==
  \/ OpOf(Len(reqs) + 1) = "executeScript"
       /\ \E a \in ScriptArgs : executeScript(a)
  \/ OpOf(Len(reqs) + 1) = "executeSingleCommand"
       /\ \E a \in SingleArgs : executeSingleCommand(a)
  \/ restart
  \/ close
  \/ \E w \in Workers : StdoutData(w)
  \/ \E w \in Workers : StderrData(w)
  \/ \E w \in Workers : \E n \in 1..(MaxReq + 1) : WorkerData(w, n)
  \/ \E w \in Workers : \E c \in execs[w] : ExecCallback(w, c)
  \/ \E w \in Workers : WorkerEnd(w)

MixSpec == Init /\ [][MixNext]_vars

\* C24: executeSingleCommand queues and correlates as executeScript does.
\* On a running pipeline every call of it appends exactly one request at
\* the tail of the one queue and writes exactly one command to the worker
\* held, settling nothing; requests of both methods are queued in the order
\* of their calls; and whatever method made it, a request is settled only
\* as the head of the queue, which the settlement removes.
C24_SameQueueSemantics ==
  /\ [](\A j, k \in DOMAIN pending : j < k => pending[j] < pending[k])
  /\ [][/\ (mainThread # NULL /\ \E a \in SingleArgs : executeSingleCommand(a)) =>
             LET id == Len(reqs) + 1 IN
               /\ Len(reqs') = id
               /\ pending' = Append(pending, id)
               /\ stdinLog' = [stdinLog EXCEPT ![mainThread] = Append(@, id)]
               /\ settleLog' = settleLog
        /\ settleLog' # settleLog =>
             /\ pending # <<>>
             /\ Len(settleLog') = Len(settleLog) + 1
             /\ SubSeq(settleLog', 1, Len(settleLog)) = settleLog
             /\ settleLog'[Len(settleLog')].id = Head(pending)
             /\ pending' = Tail(pending)]_vars

\* a request of executeSingleCommand was queued behind one of executeScript
\* on the same worker, and was settled after it
C24_Witness ==
  /\ Len(reqs) = 2
  /\ OpOf(1) = "executeScript" /\ OpOf(2) = "executeSingleCommand"
  /\ stdinLog[FirstWorker] = <<1, 2>>
  /\ Len(settleLog) = 2 /\ settleLog[1].id = 1 /\ settleLog[2].id = 2

\* C25: executeSingleCommand bypasses framing: what it writes to the
\* worker's input is the caller's text as given, then a newline.
C25_RawTextWritten ==
  scriptArg.op = "executeSingleCommand" =>
    command = scriptArg.arg \o <<LF>>

\* ------------------------------------------------------- a worker crash
\* The process of worker w dies on its own (killed, out of memory, node
\* failing): the execs it was running are lost with it; what it had
\* written to its pipes can still be read. The pipeline registers no
\* `exit`, `close` or `error` listener on the process, so nothing of the
\* pipeline changes.
Crash(w) ==
  /\ wstate[w] = "running"
  /\ wstate' = [wstate EXCEPT ![w] = "exited"]
  /\ exitCode' = [exitCode EXCEPT ![w] = 1]
  /\ execs' = [execs EXCEPT ![w] = {}]
  /\ UNCHANGED <<mainThread, pending, reqs, settleLog, discarded, lastCall,
                 spawned, stdinLog, stdinRead, stdinEnded, stdoutPipe,
                 stderrPipe, emitOrder>>
  /\ UNCHANGED textVars

\* the pipeline with workers that end by crashing instead of by close()
CrashNext ==
  \/ \E a \in ScriptArgs : executeScript(a)
  \/ \E a \in SingleArgs : executeSingleCommand(a)
  \/ restart
  \/ \E w \in Workers : StdoutData(w)
  \/ \E w \in Workers : StderrData(w)
  \/ \E w \in Workers : \E n \in 1..(MaxReq + 1) : WorkerData(w, n)
  \/ \E w \in Workers : \E c \in execs[w] : ExecCallback(w, c)
  \/ \E w \in Workers : Crash(w)

CrashSpec == Init /\ [][CrashNext]_vars

\* the places of request i on the inputs of the workers
WritesOf(i) ==
  {p \in Workers \X (1..MaxReq + 1) :
     p[2] \in DOMAIN stdinLog[p[1]] /\ stdinLog[p[1]][p[2]] = i}

\* every chunk the worker wrote was handled
Drained(w) == stdoutPipe[w] = <<>> /\ stderrPipe[w] = <<>>

\* C26: worker crash and no retry. The step in which a worker process ends
\* settles nothing, takes nothing off the queue and writes nothing; once
\* the worker the pipeline listens to has ended and its chunks were
\* handled, the requests still queued stay queued and nothing is ever
\* settled again, restart() or not; and every accepted command is on the
\* input of exactly one worker, the one held when it was submitted, exactly
\* once.
C26_CrashNoRetry ==
  /\ [](\A i \in Accepted :
          WritesOf(i) \subseteq {reqs[i].worker} \X (1..MaxReq + 1)
          /\ Cardinality(WritesOf(i)) = 1)
  /\ [][/\ \A w \in Workers :
             (wstate[w] = "running" /\ wstate'[w] = "exited") =>
                /\ settleLog' = settleLog
                /\ pending' = pending
                /\ stdinLog' = stdinLog
        /\ (wstate[FirstWorker] = "exited" /\ Drained(FirstWorker)) =>
             /\ settleLog' = settleLog
             /\ Len(pending') >= Len(pending)
             /\ SubSeq(pending', 1, Len(pending)) = pending]_vars

\* the worker crashed with a request queued whose command it never read,
\* and everything it had written was handled
C26_Witness ==
  /\ wstate[FirstWorker] = "exited" /\ exitCode[FirstWorker] = 1
  /\ Drained(FirstWorker)
  /\ pending # <<>>
  /\ stdinRead[FirstWorker] < Len(stdinLog[FirstWorker])
  /\ settleLog # <<>>

\* the step handles a chunk of some worker
ChunkStep == \E w \in Workers : StdoutStep(w) \/ StderrStep(w)

\* the step is a call of the public API that had an effect: it accepted a
\* request, changed the handle, spawned a worker or ended an input
CallStep ==
  \/ reqs' # reqs
  \/ mainThread' # mainThread
  \/ spawned' # spawned
  \/ stdinEnded' # stdinEnded
  \/ stdinLog' # stdinLog

\* C27: no settlement without a worker event. A step in which a
\* continuation is called handles a stdout or stderr chunk, calls exactly
\* one continuation and is no call of executeScript, executeSingleCommand,
\* close() or restart(); the model has no step of time passing.
C27_SettledByChunkOnly ==
  [][settleLog' # settleLog =>
       /\ ChunkStep
       /\ ~CallStep
       /\ lastCall' = lastCall
       /\ Len(settleLog') = Len(settleLog) + 1
       /\ SubSeq(settleLog', 1, Len(settleLog)) = settleLog]_vars

\* restart() and then close() were called with a request queued that is
\* still queued, after another one was settled by a chunk
C27_Witness ==
  /\ spawned = 2 /\ stdinEnded[2] /\ mainThread = NULL
  /\ Len(settleLog) = 1
  /\ pending # <<>>
  /\ \A i \in Range(pending) : reqs[i].worker = FirstWorker

\* C28: the queue is changed only by an accepted submit, which appends the
\* new request at the tail, and by the handling of a chunk, which removes
\* the head; close() and restart() leave it as it is.
C28_QueueFrame ==
  [][/\ pending' # pending =>
          \/ /\ Len(reqs') = Len(reqs) + 1
             /\ pending' = Append(pending, Len(reqs'))
          \/ /\ ChunkStep
             /\ ~CallStep
             /\ pending' = Tail(pending)
     /\ (mainThread' # mainThread \/ spawned' # spawned
           \/ stdinEnded' # stdinEnded) => pending' = pending]_vars

\* two requests were queued before close() and restart() and both are
\* still queued, in their order
C28_Witness ==
  /\ pending = <<1, 2>>
  /\ stdinEnded[FirstWorker]
  /\ spawned = 2 /\ mainThread = 2

\* the requests written to worker w, in the order of its input
FramesOn(w) == SelectSeq(stdinLog[w], LAMBDA x : x # EXIT)

\* C29: writes are serialized with the queue. A step that queues a request
\* writes its command, and only its command, to the worker held, in the
\* same step, whatever other calls come before or after; so on the input of
\* every worker the frames are in the order of their requests, which is
\* the order of the queue.
C29_WritesFollowQueue ==
  /\ [](/\ \A j, k \in DOMAIN pending : j < k => pending[j] < pending[k]
        /\ \A w \in Workers : \A j, k \in DOMAIN FramesOn(w) :
             j < k => FramesOn(w)[j] < FramesOn(w)[k]
        /\ \A i \in Range(pending) : i \in Range(stdinLog[reqs[i].worker]))
  /\ [][Len(reqs') # Len(reqs) =>
          LET id == Len(reqs) + 1 IN
            /\ Len(reqs') = id
            /\ pending' = Append(pending, id)
            /\ stdinLog' = [stdinLog EXCEPT ![mainThread] = Append(@, id)]]_vars

\* two callers submitted without awaiting: both frames are on the input of
\* the worker, unread, in the order of the queue
C29_Witness ==
  /\ pending = <<1, 2>>
  /\ stdinLog[FirstWorker] = <<1, 2>>
  /\ stdinRead[FirstWorker] = 0

\* C30: queue accounting without restart(). The length of the queue is the
\* number of accepted requests minus the number of chunks handled with a
\* non-empty queue (each of which settled a request); and once the worker
\* wrote as many chunks as requests were accepted and all were handled, the
\* queue is empty.
C30_QueueAccounting ==
  spawned = 1 =>
    /\ Len(pending) = Len(reqs) - Len(settleLog)
    /\ (Drained(FirstWorker) /\ Len(settleLog) + discarded = Len(reqs)) =>
         pending = <<>>

\* two commands were answered with one chunk each, both chunks were handled
\* and the queue is empty again
C30_Witness ==
  /\ spawned = 1 /\ mainThread = FirstWorker
  /\ Len(reqs) = 2 /\ Len(settleLog) = 2 /\ discarded = 0
  /\ Drained(FirstWorker)
  /\ pending = <<>>

\* ------------------------------------------- responses in several chunks
\* The callback of exec, with the response it writes delivered by the pipe
\* as two `data` events instead of one (an output longer than the pipe
\* buffer, or a read that comes in the middle of the write): a first
\* chunk of one character or more and a second with the rest.
ExecCallbackChunked(w, chunk) ==
  /\ wstate[w] = "running"
  /\ chunk \in execs[w]
  /\ execs' = [execs EXCEPT ![w] = @ \ {chunk}]
  /\ LET text == IF ExecErr(chunk) THEN ErrorText(chunk) ELSE OutputText(chunk)
     IN  \E k \in 1..(Len(text) - 1) :
           LET pieces == <<SubSeq(text, 1, k), SubSeq(text, k + 1, Len(text))>>
           IN  IF ExecErr(chunk)
                 THEN /\ stderrPipe' = [stderrPipe EXCEPT ![w] = @ \o pieces]
                      /\ emitOrder' = [emitOrder EXCEPT
                                         ![w] = @ \o <<"stderr", "stderr">>]
                      /\ UNCHANGED stdoutPipe
                 ELSE /\ stdoutPipe' = [stdoutPipe EXCEPT ![w] = @ \o pieces]
                      /\ emitOrder' = [emitOrder EXCEPT
                                         ![w] = @ \o <<"stdout", "stdout">>]
                      /\ UNCHANGED stderrPipe
  /\ UNCHANGED <<mainThread, pending, reqs, settleLog, discarded, lastCall,
                 spawned, wstate, exitCode, stdinLog, stdinRead, stdinEnded>>
  /\ UNCHANGED textVars

\* the awaiting caller of SeqSpec, without close() and restart(), and a
\* pipe that may deliver a response in two chunks
SplitNext ==
  \/ Awaited /\ \E a \in ScriptArgs : executeScript(a)
  \/ Awaited /\ \E a \in SingleArgs : executeSingleCommand(a)
  \/ StdoutData(FirstWorker)
  \/ StderrData(FirstWorker)
  \/ \E n \in 1..(MaxReq + 1) : WorkerData(FirstWorker, n)
  \/ \E c \in execs[FirstWorker] : ExecCallback(FirstWorker, c)
  \/ \E c \in execs[FirstWorker] : ExecCallbackChunked(FirstWorker, c)

SplitSpec == Init /\ [][SplitNext]_vars

\* C31: a response settles one request, also when it arrives as more than
\* one chunk: no two different requests are settled with texts that are,
\* one after the other, the response the worker wrote for one command.
C31_SplitSettlesOne ==
  \A j, k \in DOMAIN settleLog :
    (j < k /\ settleLog[j].id # settleLog[k].id) =>
       settleLog[j].text \o settleLog[k].text
         \notin {ResponseOf(i) : i \in Accepted}

\* C32: close() with requests pending, no restart(): no request is settled
\* with a message the worker writes when it is told to exit.
C32_NoShutdownSettlement ==
  spawned = 1 =>
    \A k \in DOMAIN settleLog : settleLog[k].text # <<WorkerExiting, NL>>

\* C33: a request is settled only by a chunk of the worker it was written
\* to; in particular a chunk of the worker replaced by restart() settles no
\* request submitted after the restart.
C33_SettledByOwnWorker ==
  [][\A w \in Workers :
       ((StdoutStep(w) \/ StderrStep(w)) /\ settleLog' # settleLog) =>
          reqs[Head(pending)].worker = w]_vars

\* C34: one worker at most is kept alive: a worker that is running and is
\* not the one held has been sent `exit` and the end of its input.
C34_OnlyHeldWorkerAlive ==
  \A w \in Workers :
    (wstate[w] = "running" /\ w # mainThread) =>
       /\ stdinEnded[w]
       /\ stdinLog[w] # <<>>
       /\ stdinLog[w][Len(stdinLog[w])] = EXIT

\* C35: frame containment. Whatever the payload of executeScript, a line
\* equal to __APPLESCRIPT__ included, the here-document the shell reads is
\* the whole payload and the shell is left no command line of its own.
C35_FrameContainment ==
  (scriptArg.op = "executeScript" /\ shellRead.read) =>
     /\ JoinLines(shellRead.lines) = JoinLines(scriptArg.arg)
     /\ shellRead.rest = <<>>

\* C36: the argument check of executeScript. On a running pipeline a call
\* with something that is not an array, or with an empty array, throws the
\* non-empty-array error and leaves the queue, the requests, the
\* settlements and every worker's input as they were; with no handle held
\* the same call throws the not-running error instead; and the
\* non-empty-array error is thrown in no other case.
C36_ArgumentCheck ==
  [][/\ \A a \in {"notArray", "emptyArray"} :
          executeScript(a) =>
            /\ lastCall' = (IF mainThread = NULL THEN "NotRunning"
                            ELSE "InvalidArgument")
            /\ UNCHANGED <<mainThread, pending, reqs, settleLog, stdinLog,
                           stdinEnded>>
     /\ (lastCall' = "InvalidArgument" /\ lastCall # "InvalidArgument") =>
          /\ mainThread # NULL
          /\ UNCHANGED <<mainThread, pending, reqs, settleLog, stdinLog,
                         stdinEnded>>]_vars

\* a call was refused for its argument while a request was waiting in the
\* queue, its command written to the worker held
C36_Witness ==
  /\ lastCall = "InvalidArgument"
  /\ mainThread # NULL
  /\ pending # <<>>
  /\ stdinLog[mainThread] # <<>>

====
